---- MODULE Spec2Model ----
(***************************************************************************)
(* TSON codec of tson-js: the character-level recursive-descent Parser    *)
(* behind TSON.parse and the Stringifier behind TSON.stringify            *)
(* (src/src/index.ts, lines 1-749), and the Lexer of the token-level      *)
(* parser (lines 1570-1910).                                               *)
(*                                                                         *)
(* A text is a sequence of one-character strings.  A JavaScript value is a *)
(* tagged record:                                                          *)
(*   [t |-> "null"]                      null                              *)
(*   [t |-> "bool", b |-> BOOLEAN]       true / false                      *)
(*   [t |-> "num", n |-> Int, e |-> Nat] the number n / 10^e (e = 0 for an *)
(*                                       integral number; n has no         *)
(*                                       trailing zero when e > 0)         *)
(*   [t |-> "nan"]                       NaN                               *)
(*   [t |-> "str", s |-> chars]          a string                          *)
(*   [t |-> "arr", items |-> values]     an array                          *)
(*   [t |-> "obj", kv |-> pairs]         an object, own keys in insertion  *)
(*                                       order, pairs [k |-> chars, v]     *)
(* The recursion of the parser is an explicit stack of frames, one per     *)
(* open parseNameOptionalValue / parseObject / parseArray /                *)
(* parseArrayTypeSpecifier call, so that a call that never returns is a    *)
(* behaviour that never reaches pc = "done".                               *)
(***************************************************************************)
EXTENDS Integers, Sequences, FiniteSets, TLC

VARIABLES
  input,    \* Parser._input, the text being parsed
  cursor,   \* Parser._cursor: [position, column, line]
  errors,   \* Parser._errors, the diagnostics recorded so far
  stack,    \* the open calls, innermost last
  ret,      \* the value the last finished parser call returned
  pc,       \* "stringify", "start", "val", "loop", "ret", "done"; "lex" in Lexer runs
  outcome,  \* "none" while running, then "return" or "throw"
  thrown,   \* the errors list of the TSONParseErrors thrown
  result,   \* the value parse() built (returned when outcome = "return")
  value,    \* the value handed to TSON.stringify (round-trip runs)
  pretty,   \* the pretty argument of TSON.stringify
  again,    \* a second text to parse after this one, then the first call's end
  lexer,    \* the Lexer: [position, line, column, tokens, outcome, returned]
  hist      \* history: what the call has met so far

vars == <<input, cursor, errors, stack, ret, pc, outcome, thrown, result,
          value, pretty, again, lexer, hist>>

---------------------------------------------------------------------------
(* Bounds *)

\* Every text of at most MaxLen characters over Alphabet is parsed.
MaxLen == 3

\* Every value of at most MaxNodes nodes (scalars and containers, counted
\* together) over Scalars and Keys is handed to stringify.
MaxNodes == 4

\* Under fairness, every text of at most FairLen characters is parsed.
FairLen == 2

\* Every text of at most MaxPairLen characters is parsed along with the texts
\* that differ from it by a run of separators.
MaxPairLen == 3

---------------------------------------------------------------------------
(* Characters *)

Letters ==
  {"a","b","c","d","e","f","g","h","i","j","k","l","m","n","o","p","q","r",
   "s","t","u","v","w","x","y","z","A","B","C","D","E","F","G","H","I","J",
   "K","L","M","N","O","P","Q","R","S","T","U","V","W","X","Y","Z"}

Digits == {"0","1","2","3","4","5","6","7","8","9"}

DigitValue(c) ==
  CASE c = "0" -> 0 [] c = "1" -> 1 [] c = "2" -> 2 [] c = "3" -> 3
    [] c = "4" -> 4 [] c = "5" -> 5 [] c = "6" -> 6 [] c = "7" -> 7
    [] c = "8" -> 8 [] c = "9" -> 9

DigitChar(d) ==
  CASE d = 0 -> "0" [] d = 1 -> "1" [] d = 2 -> "2" [] d = 3 -> "3"
    [] d = 4 -> "4" [] d = 5 -> "5" [] d = 6 -> "6" [] d = 7 -> "7"
    [] d = 8 -> "8" [] d = 9 -> "9"

\* The character peek() returns at the end of the input ("\0" in the source).
NUL == "NUL"

\* What String.prototype.charAt returns past the end of the input.
NoChar == ""

\* The characters the regex class \s matches, among those a text can hold.
WhitespaceChars == {" ", "\t", "\n", "\r", "\f"}

\* The characters skipWhitespace steps over.
SeparatorChars == {",", " ", "\n", "\r", "\t"}

ParserKeysWithBrace == {"{", "[", "<", "\"", "#", "=", "?", "~", "}"}

\* The keys of the dispatch table Parser._parsers.
ParserKeys == {"{", "[", "<", "\"", "#", "=", "?", "~"}

IsNamePart(c) == c \in Letters \cup Digits \cup {"_", ".", "-", "$"}

IsNumberTerminator(c) == c \in WhitespaceChars \cup {",", "}", "]", "\"", ":", ";"}

---------------------------------------------------------------------------
(* Values *)

Null == [t |-> "null"]
NaN == [t |-> "nan"]
Bool(b) == [t |-> "bool", b |-> b]
Num(n, e) == [t |-> "num", n |-> n, e |-> e]
Str(s) == [t |-> "str", s |-> s]
Arr(items) == [t |-> "arr", items |-> items]
Obj(kv) == [t |-> "obj", kv |-> kv]

\* No value: the content of ret, result and value while they hold nothing.
None == [t |-> "none"]

\* Whether a key is an array index ("0", "7", "12": digits with no leading
\* zero): an object lists such keys first, in ascending order.
IsArrayIndex(name) ==
  /\ name # <<>>
  /\ \A i \in 1..Len(name) : name[i] \in Digits
  /\ Len(name) = 1 \/ name[1] # "0"

RECURSIVE IndexValue(_, _)
IndexValue(name, acc) ==
  IF name = <<>> THEN acc ELSE IndexValue(Tail(name), 10 * acc + DigitValue(Head(name)))

SetKeyFirstWins(kv, name, v) ==
  IF \E i \in 1..Len(kv) : kv[i].k = name
    THEN kv
    ELSE Append(kv, [k |-> name, v |-> v])

\* object[name] = v on an ordinary object: an existing own key keeps its place
\* and takes the new value; a new key is appended, an array index among the
\* array indices.
SetKey(kv, name, v) ==
  LET before == Cardinality({i \in 1..Len(kv) :
                   IsArrayIndex(kv[i].k) /\ IndexValue(kv[i].k, 0) < IndexValue(name, 0)})
  IN IF \E i \in 1..Len(kv) : kv[i].k = name
       THEN [i \in 1..Len(kv) |-> IF kv[i].k = name THEN [k |-> name, v |-> v] ELSE kv[i]]
     ELSE IF IsArrayIndex(name)
       THEN SubSeq(kv, 1, before) \o <<[k |-> name, v |-> v]>> \o SubSeq(kv, before + 1, Len(kv))
     ELSE Append(kv, [k |-> name, v |-> v])

---------------------------------------------------------------------------
(* Cursor and diagnostics *)

StartCursor == [position |-> 0, column |-> 1, line |-> 1]

copyCursor(c) == [position |-> c.position, column |-> c.column, line |-> c.line]

\* new TSONParseError(message, cursor, endCursor): both cursors are copied.
TSONParseError(message, c, endC) ==
  [message |-> message, cursor |-> copyCursor(c), endCursor |-> copyCursor(endC)]

charAt(inp, p) == IF p < Len(inp) THEN inp[p + 1] ELSE NoChar

isAtEnd(inp, c) == c.position >= Len(inp)

peek(inp, c) == IF c.position >= Len(inp) THEN NUL ELSE inp[c.position + 1]

peekNext(inp, c) == IF c.position + 1 >= Len(inp) THEN NUL ELSE inp[c.position + 2]

AdvanceColumnZero(inp, c) ==
  IF charAt(inp, c.position) = "\n"
    THEN [position |-> c.position + 1, column |-> 0, line |-> c.line + 1]
    ELSE [position |-> c.position + 1, column |-> c.column + 1, line |-> c.line]

\* advance(): the cursor after the step (the character returned is
\* charAt(inp, c.position)); the position grows even past the end.
advance(inp, c) ==
  IF charAt(inp, c.position) = "\n"
    THEN [position |-> c.position + 1, column |-> 1, line |-> c.line + 1]
    ELSE [position |-> c.position + 1, column |-> c.column + 1, line |-> c.line]

RECURSIVE skipWhitespace(_, _)
skipWhitespace(inp, c) ==
  IF peek(inp, c) \in SeparatorChars
    THEN skipWhitespace(inp, advance(inp, c))
    ELSE c

\* A terminating call records fewer than ErrorCap diagnostics and builds
\* arrays shorter than ErrorCap; the model keeps no more than that many, so
\* that a member loop that never ends is a finite cycle of states.
ErrorCap(inp) == Len(inp) + 2

\* addError when the diagnostics hold this._cursor itself instead of a copy:
\* the diagnostics recorded earlier show the cursor of the newest.
AddErrorAliased(inp, errs, e) ==
  IF Len(errs) < ErrorCap(inp)
    THEN Append([i \in 1..Len(errs) |->
                   [errs[i] EXCEPT !.cursor = e.endCursor, !.endCursor = e.endCursor]], e)
    ELSE errs

\* addError(error) as a function of the list.
addError(inp, errs, e) == IF Len(errs) < ErrorCap(inp) THEN Append(errs, e) ELSE errs

\* array.push(v)
push(inp, items, v) == IF Len(items) < ErrorCap(inp) THEN Append(items, v) ELSE items

ThrowIfErrorsOffByOne(errs) == Len(errs) > 1

\* throwIfErrors(): whether it throws.
throwIfErrors(errs) == Len(errs) > 0

---------------------------------------------------------------------------
(* Scalar productions: each is the cursor and the errors after the call,  *)
(* with the value returned.                                                *)

\* parseName(): the longest run of Name characters at the cursor.
RECURSIVE parseName(_, _, _)
parseName(inp, c, acc) ==
  IF IsNamePart(peek(inp, c))
    THEN parseName(inp, advance(inp, c), Append(acc, charAt(inp, c.position)))
    ELSE [name |-> acc, cur |-> c]

\* The scanning loop shared by parseInt, parseFloat and the tail of
\* parseBoolean: up to a number terminator or the end of the input.
RECURSIVE ScanLiteral(_, _, _)
ScanLiteral(inp, c, acc) ==
  IF ~IsNumberTerminator(peek(inp, c)) /\ ~isAtEnd(inp, c)
    THEN ScanLiteral(inp, advance(inp, c), Append(acc, charAt(inp, c.position)))
    ELSE [str |-> acc, cur |-> c]

\* The index after the run of digits of s that starts at index i.
RECURSIVE DigitsEnd(_, _)
DigitsEnd(s, i) ==
  IF i <= Len(s) /\ s[i] \in Digits THEN DigitsEnd(s, i + 1) ELSE i

\* The number the digits s[i], ..., s[j-1] spell after the prefix value acc.
RECURSIVE DigitsValue(_, _, _, _)
DigitsValue(s, i, j, acc) ==
  IF i >= j THEN acc ELSE DigitsValue(s, i + 1, j, 10 * acc + DigitValue(s[i]))

RECURSIVE Pow10(_)
Pow10(k) == IF k <= 0 THEN 1 ELSE 10 * Pow10(k - 1)

\* The number n / 10^e in its normal form.
RECURSIVE Normal(_, _)
Normal(n, e) ==
  IF e < 0 THEN Num(n * Pow10(0 - e), 0)
  ELSE IF e > 0 /\ n % 10 = 0 THEN Normal(n \div 10, e - 1)
  ELSE Num(n, e)

\* The built-in parseInt(s, 10): an optional sign and the longest run of
\* digits after it; NaN when there is no digit.
JSParseInt(s) ==
  LET signed == Len(s) >= 1 /\ s[1] \in {"+", "-"}
      i1 == IF signed THEN 2 ELSE 1
      i2 == DigitsEnd(s, i1)
      mag == DigitsValue(s, i1, i2, 0)
  IN IF i2 = i1 THEN NaN
     ELSE Num(IF signed /\ s[1] = "-" THEN 0 - mag ELSE mag, 0)

\* The built-in parseFloat(s): the longest prefix that is a decimal literal
\* (sign, digits, one point with digits, an exponent with digits); NaN when
\* the prefix holds no digit.  No text of the model spells Infinity.
JSParseFloat(s) ==
  LET signed == Len(s) >= 1 /\ s[1] \in {"+", "-"}
      i1 == IF signed THEN 2 ELSE 1
      i2 == DigitsEnd(s, i1)
      dot == i2 <= Len(s) /\ s[i2] = "."
      i3 == IF dot THEN DigitsEnd(s, i2 + 1) ELSE i2
      nInt == i2 - i1
      nFrac == IF dot THEN i3 - (i2 + 1) ELSE 0
      mant == DigitsValue(s, i2 + 1, i3, DigitsValue(s, i1, i2, 0))
      hasE == i3 <= Len(s) /\ s[i3] \in {"e", "E"}
      eSigned == hasE /\ i3 + 1 <= Len(s) /\ s[i3 + 1] \in {"+", "-"}
      j1 == IF eSigned THEN i3 + 2 ELSE i3 + 1
      j2 == IF hasE THEN DigitsEnd(s, j1) ELSE j1
      expo == IF hasE /\ j2 > j1
                THEN (IF eSigned /\ s[i3 + 1] = "-" THEN 0 - DigitsValue(s, j1, j2, 0)
                                                   ELSE DigitsValue(s, j1, j2, 0))
                ELSE 0
      sgn == IF signed /\ s[1] = "-" THEN 0 - 1 ELSE 1
  IN IF nInt = 0 /\ nFrac = 0 THEN NaN
     ELSE Normal(sgn * mant, (IF dot THEN nFrac ELSE 0) - expo)

\* parseInt(): the literal up to the next terminator, through parseInt(s, 10).
parseInt(inp, c, errs) ==
  LET lit == ScanLiteral(inp, c, <<>>)
  IN [val |-> JSParseInt(lit.str), cur |-> lit.cur, errs |-> errs, str |-> "none"]

\* parseFloat(): the literal up to the next terminator, through parseFloat(s).
parseFloat(inp, c, errs) ==
  LET lit == ScanLiteral(inp, c, <<>>)
  IN [val |-> JSParseFloat(lit.str), cur |-> lit.cur, errs |-> errs, str |-> "none"]

\* parseNull(): one more advance() after the one parseVal made over "~".
parseNull(inp, c, errs) ==
  [val |-> Null, cur |-> advance(inp, c), errs |-> errs, str |-> "none"]

\* advanceMultiple(count): the characters read and the cursor after them.
RECURSIVE advanceMultiple(_, _, _, _)
advanceMultiple(inp, c, count, acc) ==
  IF count = 0 THEN [str |-> acc, cur |-> c]
  ELSE advanceMultiple(inp, advance(inp, c), count - 1,
         IF charAt(inp, c.position) = NoChar THEN acc
         ELSE Append(acc, charAt(inp, c.position)))

\* parseBoolean()
parseBoolean(inp, c, errs) ==
  LET startCursor == copyCursor(c)
      first == charAt(inp, c.position)
      c1 == advance(inp, c)
      rue == advanceMultiple(inp, c1, 3, <<>>)
      alse == advanceMultiple(inp, c1, 4, <<>>)
      rest == ScanLiteral(inp, c1, <<>>)
      bad(endC) == addError(inp, errs,
                     TSONParseError("Invalid boolean value", startCursor, endC))
  IN IF first = "t"
       THEN IF rue.str = <<"r", "u", "e">>
              THEN [val |-> Bool(TRUE), cur |-> rue.cur, errs |-> errs, str |-> "none"]
              ELSE [val |-> Bool(FALSE), cur |-> rue.cur, errs |-> bad(rue.cur),
                    str |-> "none"]
     ELSE IF first = "f"
       THEN IF alse.str = <<"a", "l", "s", "e">>
              THEN [val |-> Bool(FALSE), cur |-> alse.cur, errs |-> errs, str |-> "none"]
              ELSE [val |-> Bool(FALSE), cur |-> alse.cur, errs |-> bad(alse.cur),
                    str |-> "none"]
     ELSE [val |-> Bool(FALSE), cur |-> rest.cur, errs |-> bad(rest.cur), str |-> "none"]

\* The scanning loop of parseString: how it ends ("quote", "eof" or
\* "newline"), where, and the raw characters kept.  A backslash before a
\* double quote is kept and the quote after it is stepped over.
RECURSIVE ScanString(_, _, _)
ScanString(inp, c, acc) ==
  IF isAtEnd(inp, c) THEN [how |-> "eof", cur |-> c, raw |-> acc]
  ELSE IF peek(inp, c) = "\"" THEN [how |-> "quote", cur |-> c, raw |-> acc]
  ELSE IF peek(inp, c) = "\n" THEN [how |-> "newline", cur |-> c, raw |-> acc]
  ELSE IF peek(inp, c) = "\\" /\ peekNext(inp, c) = "\""
    THEN ScanString(inp, advance(inp, advance(inp, c)), Append(acc, "\\"))
  ELSE ScanString(inp, advance(inp, c), Append(acc, peek(inp, c)))

\* s.replace(/x/g, rep) for a one-character pattern x.
RECURSIVE ReplaceChar(_, _, _)
ReplaceChar(s, x, rep) ==
  IF s = <<>> THEN <<>>
  ELSE (IF Head(s) = x THEN rep ELSE <<Head(s)>>) \o ReplaceChar(Tail(s), x, rep)

\* s.replace(/xy/g, rep) for a two-character pattern xy, left to right.
RECURSIVE ReplacePair(_, _, _, _)
ReplacePair(s, x, y, rep) ==
  IF Len(s) < 2 THEN s
  ELSE IF s[1] = x /\ s[2] = y THEN rep \o ReplacePair(Tail(Tail(s)), x, y, rep)
  ELSE <<Head(s)>> \o ReplacePair(Tail(s), x, y, rep)

\* The chain of replace calls that ends parseString.
Unescape(raw) ==
  LET r1 == ReplaceChar(raw, "\\", <<"\\">>)
      r2 == ReplacePair(r1, "\\", "\"", <<"\"">>)
      r3 == ReplacePair(r2, "\\", "n", <<"\n">>)
      r4 == ReplacePair(r3, "\\", "r", <<"\r">>)
  IN ReplacePair(r4, "\\", "t", <<"\t">>)

\* parseString(): str tells how the scan ended ("quote", "eof", "newline").
parseString(inp, c, errs) ==
  LET startCursor == copyCursor(c)
      scan == ScanString(inp, c, <<>>)
  IN IF scan.how = "newline"
       THEN [val |-> Str(<<>>), cur |-> scan.cur,
             errs |-> addError(inp, errs,
                        TSONParseError("Unterminated string", startCursor, scan.cur)),
             str |-> "newline"]
       ELSE [val |-> Str(Unescape(scan.raw)), cur |-> advance(inp, scan.cur),
             errs |-> errs, str |-> scan.how]

---------------------------------------------------------------------------
(* Call frames *)

\* An open call.  kind: "root" (parse), "obj" (parseObject), "arr"
\* (parseArray), "typed" (the item loop of parseArrayTypeSpecifier).
\* name: the Name read for the member under way; items: the members built
\* so far (pairs for "obj"); hint: the type character of a typed array;
\* open: the cursor at the character that opened the container (startCursor
\* of the parseVal that called it); start: the position at which the
\* iteration under way began.
Frame(kind, hint, openC) ==
  [kind |-> kind, name |-> <<>>, items |-> <<>>, hint |-> hint,
   open |-> copyCursor(openC), start |-> openC.position]

Top == stack[Len(stack)]

Pop(stk) == SubSeq(stk, 1, Len(stk) - 1)

ReplaceTop(stk, f) == [stk EXCEPT ![Len(stk)] = f]

\* The header of parseArrayTypeSpecifier, from the character after "<" to
\* the lookup of the hint's production.
TypeSpecifierHeader(inp, c, errs) ==
  LET type == charAt(inp, c.position)
      c1 == advance(inp, c)
      closingSymbol == charAt(inp, c1.position)
      c2 == advance(inp, c1)
      openingSymbol == charAt(inp, c2.position)
      c3 == advance(inp, c2)
      c4 == skipWhitespace(inp, c3)
      unexpected(at) ==
        addError(inp, errs, TSONParseError("Unexpected character", at, at))
  IN IF closingSymbol # ">" THEN [ok |-> FALSE, hint |-> type, cur |-> c2, errs |-> unexpected(c2)]
     ELSE IF openingSymbol # "[" THEN [ok |-> FALSE, hint |-> type, cur |-> c3, errs |-> unexpected(c3)]
     ELSE IF type \notin ParserKeys THEN [ok |-> FALSE, hint |-> type, cur |-> c4, errs |-> unexpected(c4)]
     ELSE [ok |-> TRUE, hint |-> type, cur |-> c4, errs |-> errs]

\* this._parsers[key].call(this, this._cursor) with the cursor at c: either
\* the call finishes at once (kind "ret": a scalar, or a typed array whose
\* header is rejected) or it opens a container (kind "push").  openC is the
\* cursor at the character that selected the production.
CallParser(key, inp, c, errs, openC) ==
  LET scalar == CASE key = "\"" -> parseString(inp, c, errs)
                  [] key = "#" -> parseInt(inp, c, errs)
                  [] key = "=" -> parseFloat(inp, c, errs)
                  [] key = "?" -> parseBoolean(inp, c, errs)
                  [] OTHER -> parseNull(inp, c, errs)
      header == TypeSpecifierHeader(inp, c, errs)
      opened(kind, hint, at) ==
        [kind |-> "push", frame |-> Frame(kind, hint, openC), val |-> None,
         cur |-> at, errs |-> errs, str |-> "none"]
  IN CASE key = "{" -> opened("obj", "", skipWhitespace(inp, c))
       [] key = "[" -> opened("arr", "", skipWhitespace(inp, c))
       [] key = "<" ->
            IF header.ok
              THEN [opened("typed", header.hint, header.cur) EXCEPT !.errs = header.errs]
              ELSE [kind |-> "ret", frame |-> Frame("none", "", openC), val |-> Arr(<<>>),
                    cur |-> header.cur, errs |-> header.errs, str |-> "none"]
       [] OTHER ->
            [kind |-> "ret", frame |-> Frame("none", "", openC), val |-> scalar.val,
             cur |-> scalar.cur, errs |-> scalar.errs, str |-> scalar.str]

\* The state after a CallParser made under the frames stk.
AfterCall(stk, r) ==
  /\ cursor' = r.cur
  /\ errors' = r.errs
  /\ stack' = IF r.kind = "push" THEN Append(stk, r.frame) ELSE stk
  /\ ret' = IF r.kind = "push" THEN None ELSE r.val
  /\ pc' = IF r.kind = "push" THEN "loop" ELSE "ret"
  /\ hist' = [hist EXCEPT !.stringAtEnd = @ \/ r.str = "eof",
                           !.stringAtNewline = @ \/ r.str = "newline"]

---------------------------------------------------------------------------
(* The texts parsed *)

\* The characters of the enumerated texts.
Alphabet ==
  {"{", "}", "[", "]", "<", ">", "#", "?", "~", "\"", "\\", "\n", ",", ";", "n", "1"}

\* errors.test.ts:23 and spec section 8 (Recovery)
ExRecovery ==
  <<"p","e","r","s","o","n","{","n","a","m","e","\"","J","o","h","n","\""," ","a","g","e","#","3","0">>

\* errors.test.ts:28
ExUnterminatedNested ==
  <<"u","s","e","r","{","n","a","m","e","\"","A","l","i","c","e","\""," ","a","d","d","r","e","s","s","{","c","i","t","y","\"","W","o","n","d","e","r","l","a","n","d","\"","}">>

\* errors.test.ts:39
ExUnterminatedArray ==
  <<"c","o","l","o","r","s","[","\"","r","e","d","\""," ","\"","g","r","e","e","n","\""," ","\"","b","l","u","e","\"">>

\* errors.test.ts:44
ExUnterminatedTyped ==
  <<"n","u","m","b","e","r","s","<","#",">","[","1"," ","2"," ","3">>

\* errors.test.ts:7
ExUnterminatedString ==
  <<"{","n","a","m","e","\"","J","o","h","n","}">>

\* errors.test.ts:12
ExUnterminatedStringInArray ==
  <<"[","\"","h","e","l","l","o","\""," ","\"","w","o","r","l","d","]">>

\* errors.test.ts:17
ExUnterminatedEscape ==
  <<"{","m","e","s","s","a","g","e","\"","H","e","l","l","o","\\","}">>

\* errors.test.ts:71
ExMismatchedObject ==
  <<"p","e","r","s","o","n","{","n","a","m","e","\"","J","o","h","n","\"","]">>

\* errors.test.ts:76
ExMismatchedArray ==
  <<"c","o","l","o","r","s","[","\"","r","e","d","\""," ","\"","g","r","e","e","n","\""," ","\"","b","l","u","e","\"","}">>

\* errors.test.ts:92
ExBadSeparator ==
  <<"[","#","1",";","#","2",";","#","3","]">>

\* errors.test.ts:102
ExMalformed ==
  <<"{","{","{">>

\* errors.test.ts:33 and spec section 8 (Null-by-absence)
ExBareName ==
  <<"{","n","a","m","e","}">>

\* errors.test.ts:60
ExInvalidBoolean ==
  <<"{","a","c","t","i","v","e","?","m","a","y","b","e","}">>

\* spec section 8 (Typed array coercion)
ExTyped ==
  <<"n","u","m","s","<","#",">","[","1",","," ","2",","," ","3","]">>

\* a well-formed array of booleans and a float
ExBooleans ==
  <<"[","?","t","r","u","e"," ","?","f","a","l","s","e"," ","=","1",".","5","]">>

\* a typed array whose hint is the object production
ExHintObject ==
  <<"<","{",">","[","n","#","1","}","]">>

\* a raw newline inside a string literal
ExTwoLines ==
  <<"{","a","\"","x","\n","y","\"","}">>

\* two invalid booleans in one array
ExTwoInvalid ==
  <<"[","?","y","e","s"," ","?","n","o","]">>

\* errors.test.ts:87
ExMissingPrefix ==
  <<"{","a","g","e","3","0","}">>

\* errors.test.ts:55
ExInvalidNumberPrefix ==
  <<"{","c","o","u","n","t","$","3","0","}">>

\* escape.test.ts:682 without its name, spec section 4.3
ExTypedOverride ==
  <<"<","#",">","[","1",","," ","2",","," ","?","t","r","u","e","]">>

\* a typed array nested as an item of a typed array
ExTypedNested ==
  <<"<","#",">","[","1",","," ","2",","," ","<","#",">","[","3",","," ","4","]","]">>

\* escape.test.ts:647, cut to two items
ExTypedFloat ==
  <<"p","<","=",">","["," ","1","0",".","5"," ","5",".","0","]">>

\* escape.test.ts:653, cut to two items
ExTypedBoolean ==
  <<"f","<","?",">","["," ","t","r","u","e"," ","f","a","l","s","e","]">>

\* a typed array whose items all carry their own prefix
ExTypedPrefixed ==
  <<"<","?",">","[","#","1"," ","=","2",".","5"," ","~"," ","\"","s","\""," ","{","a","#","1","}"," ","[","#","2","]","]">>

\* errors.test.ts:170
ExTwoPoints ==
  <<"{","p","i","=","3",".",".","1","4","}">>

\* errors.test.ts:178
ExLetterInFloat ==
  <<"{","r","a","t","e","=","1","2","a",".","3","4","}">>

\* errors.test.ts:194
ExDanglingExponent ==
  <<"{","v","a","l","u","e","=","1",".","2","3","e","+","}">>

\* a boolean cut short before the closing bracket
ExBooleanCutShort ==
  <<"[","?","t","]">>

\* a boolean that goes on after the word true
ExBooleanTooLong ==
  <<"{","a","?","t","r","u","e","x","}">>

\* spec section 8 (Integer vs float fidelity): a float literal of integral value
ExIntegralFloat ==
  <<"=","1",".","0">>

\* a float literal with a fraction
ExFloat ==
  <<"=","1",".","5">>

\* escape.test.ts:56, cut to a literal that ends in an escaped backslash
ExEscapedBackslash ==
  <<"\"","a","\\","\\","\"">>

\* escape.test.ts:6, cut to a literal with one escaped quote
ExEscapedQuote ==
  <<"\"","a","\\","\"","b","\"">>

\* escape.test.ts:66 and spec section 8 (Escaping), with the text cut short
ExEscapedNewline ==
  <<"t","\"","L","\\","n","M","\"">>

\* a literal with an escape the parser does not know
ExUnknownEscape ==
  <<"\"","a","\\","q","\"">>

\* escape.test.ts:17, with its name and its text cut short
ExSingleQuoted ==
  <<"t","'","H","i","'">>

\* escape.test.ts:37, with its name and its text cut short
ExDoubleInSingle ==
  <<"t","'","a","\"","b","\"","'">>

\* escape.test.ts:47, with its name and its text cut short
ExSingleInDouble ==
  <<"t","\"","a","'","b","'","\"">>

\* an object that repeats a key
ExRepeatedKey ==
  <<"{","a","#","1"," ","b","#","2"," ","a","#","3","}">>

\* an object that repeats two keys, one of them twice
ExRepeatedTwice ==
  <<"{","a","#","1"," ","b","#","2"," ","c","#","3"," ","b","\"","x","\""," ","a","?","t","r","u","e"," ","a","#","4","}">>

\* README (part_003:112-121), an array with "~" items, cut to two nulls
ExTwoNulls ==
  <<"[","~","~","]">>

\* a null directly followed by a string
ExNullThenString ==
  <<"[","~","\"","x","\"","]">>

\* a null as the last member of an object
ExNullMember ==
  <<"{","a","~","}">>

\* a second value after a complete root value
ExTwoRoots ==
  <<"#","1"," ","#","2">>

\* a member whose name starts with a digit
ExDigitName ==
  <<"{","1","a","#","2","}">>

Examples ==
  {ExTwoInvalid, ExDigitName, ExTwoRoots, ExTwoNulls, ExNullThenString, ExNullMember,
   ExRepeatedKey,
   ExRepeatedTwice,
   ExSingleQuoted,
   ExDoubleInSingle,
   ExSingleInDouble,
   ExEscapedBackslash,
   ExEscapedQuote,
   ExEscapedNewline,
   ExUnknownEscape,
   ExIntegralFloat,
   ExFloat,
   ExBooleanCutShort,
   ExBooleanTooLong,
   ExTwoPoints,
   ExLetterInFloat,
   ExDanglingExponent,
   ExTypedPrefixed,
   ExTypedOverride,
   ExTypedNested,
   ExTypedFloat,
   ExTypedBoolean,
   ExMissingPrefix,
   ExInvalidNumberPrefix,
   ExRecovery,
   ExUnterminatedNested,
   ExUnterminatedArray,
   ExUnterminatedTyped,
   ExUnterminatedString,
   ExUnterminatedStringInArray,
   ExUnterminatedEscape,
   ExMismatchedObject,
   ExMismatchedArray,
   ExBadSeparator,
   ExMalformed,
   ExBareName,
   ExInvalidBoolean,
   ExTyped,
   ExBooleans,
   ExHintObject,
   ExTwoLines}

Texts == UNION {[1..n -> Alphabet] : n \in 0..MaxLen} \cup Examples

\* errors.test.ts:71, with its names and its string cut to one character
ExMismatchedObjectShort ==
  <<"p","{","n","\"","J","\"","]">>

\* errors.test.ts:76, with its names and its strings cut to one character
ExMismatchedArrayShort ==
  <<"c","[","\"","r","\""," ","\"","g","\"","}">>

ShortExamples ==
  {ExMismatchedObjectShort, ExMismatchedArrayShort, ExBadSeparator, ExMalformed,
   ExBareName, ExHintObject, ExTwoLines, ExTwoInvalid}

ShortTexts == UNION {[1..n -> Alphabet] : n \in 0..FairLen} \cup ShortExamples

---------------------------------------------------------------------------
(* TSON.parse, step by step *)

\* openAtEnd: a container's loop was left at the end of the input;
\* stringAtEnd, stringAtNewline: a string literal's scan ended at the end of
\* the input, at a raw newline.
NoHistory == [openAtEnd |-> FALSE, stringAtEnd |-> FALSE, stringAtNewline |-> FALSE]

\* No second call: none is pending and none was made.
NoRerun == [pending |-> FALSE, text |-> <<>>, outcome |-> "none", result |-> None]

\* No Lexer is constructed.
NoLexer ==
  [position |-> 0, line |-> 1, column |-> 1, tokens |-> <<>>, outcome |-> "idle",
   returned |-> <<>>]

\* new Parser(text): the state before parse() runs.
ParserInit(text) ==
  /\ input = text
  /\ cursor = StartCursor
  /\ errors = <<>>
  /\ stack = <<>>
  /\ ret = None
  /\ pc = "start"
  /\ outcome = "none"
  /\ thrown = <<>>
  /\ result = None
  /\ hist = NoHistory

Init ==
  /\ \E text \in Texts : ParserInit(text)
  /\ value = None
  /\ pretty = FALSE
  /\ again = NoRerun
  /\ lexer = NoLexer

\* parse(): skipWhitespace, then the parseName of parseNameOptionalValue.
Begin ==
  /\ pc = "start"
  /\ LET nm == parseName(input, skipWhitespace(input, cursor), <<>>)
     IN /\ cursor' = nm.cur
        /\ stack' = <<[Frame("root", "", nm.cur) EXCEPT !.name = nm.name]>>
  /\ pc' = "val"
  /\ UNCHANGED <<input, errors, ret, outcome, thrown, result, value, pretty, again, lexer, hist>>

\* parseVal(): dispatch on the character at the cursor, or record
\* "Unexpected character" and return null without moving.
ParseVal ==
  /\ pc = "val"
  /\ LET startCursor == copyCursor(cursor)
         char == peek(input, cursor)
     IN IF char \in ParserKeys
          THEN AfterCall(stack,
                 CallParser(char, input, advance(input, cursor), errors, startCursor))
          ELSE /\ errors' = addError(input, errors,
                              TSONParseError("Unexpected character", startCursor, cursor))
               /\ ret' = Null
               /\ pc' = "ret"
               /\ UNCHANGED <<cursor, stack, hist>>
  /\ UNCHANGED <<input, outcome, thrown, result, value, pretty, again, lexer>>

AtLoop(kind) == pc = "loop" /\ stack # <<>> /\ Top.kind = kind

\* Whether the member loop of a container ends here: its closing bracket,
\* or the end of the input.
LoopEnds(close) == peek(input, cursor) = close \/ isAtEnd(input, cursor)

\* A container's loop is left: advance() over the close (made at the end of
\* the input too), and the container is returned to the caller.
CloseContainer(v) ==
  /\ cursor' = advance(input, cursor)
  /\ stack' = Pop(stack)
  /\ ret' = v
  /\ pc' = "ret"
  /\ hist' = [hist EXCEPT !.openAtEnd = @ \/ isAtEnd(input, cursor)]
  /\ UNCHANGED <<input, errors, outcome, thrown, result, value, pretty, again, lexer>>

\* parseObject, one pass of the loop head: parseNameRequiredValue reads the
\* Name; without one it records "Name is required" and returns
\* {name: "", value: null} at once.
ObjectMember ==
  /\ AtLoop("obj")
  /\ ~LoopEnds("}")
  /\ LET nm == parseName(input, cursor, <<>>)
         here == [Top EXCEPT !.name = nm.name, !.start = cursor.position]
     IN /\ stack' = ReplaceTop(stack, here)
        /\ cursor' = nm.cur
        /\ IF nm.name = <<>>
             THEN /\ errors' = addError(input, errors,
                                 TSONParseError("Name is required", cursor, cursor))
                  /\ ret' = Null
                  /\ pc' = "ret"
             ELSE /\ pc' = "val"
                  /\ UNCHANGED <<errors, ret>>
  /\ UNCHANGED <<input, outcome, thrown, result, value, pretty, again, lexer, hist>>

\* parseObject, after the loop.
ObjectClose ==
  /\ AtLoop("obj")
  /\ LoopEnds("}")
  /\ CloseContainer(Obj(Top.items))

\* parseObject, the rest of the loop body: object[result.name] = result.value
\* and skipWhitespace.
ReturnToObject ==
  /\ pc = "ret"
  /\ Top.kind = "obj"
  /\ stack' = ReplaceTop(stack, [Top EXCEPT !.items = SetKey(@, Top.name, ret)])
  /\ cursor' = skipWhitespace(input, cursor)
  /\ ret' = None
  /\ pc' = "loop"
  /\ UNCHANGED <<input, errors, outcome, thrown, result, value, pretty, again, lexer, hist>>

\* parseArray, one pass of the loop head: the parseName of
\* parseNameOptionalValue.
ArrayItem ==
  /\ AtLoop("arr")
  /\ ~LoopEnds("]")
  /\ LET nm == parseName(input, cursor, <<>>)
     IN /\ stack' = ReplaceTop(stack,
                      [Top EXCEPT !.name = nm.name, !.start = cursor.position])
        /\ cursor' = nm.cur
  /\ pc' = "val"
  /\ UNCHANGED <<input, errors, ret, outcome, thrown, result, value, pretty, again, lexer, hist>>

\* parseArray, after the loop.
ArrayClose ==
  /\ AtLoop("arr")
  /\ LoopEnds("]")
  /\ CloseContainer(Arr(Top.items))

\* parseArray, the rest of the loop body: push the item, wrapped in a
\* one-key object when it has a Name, and skipWhitespace.
ReturnToArray ==
  /\ pc = "ret"
  /\ Top.kind = "arr"
  /\ LET item == IF Top.name # <<>> THEN Obj(<<[k |-> Top.name, v |-> ret]>>) ELSE ret
     IN stack' = ReplaceTop(stack, [Top EXCEPT !.items = push(input, @, item)])
  /\ cursor' = skipWhitespace(input, cursor)
  /\ ret' = None
  /\ pc' = "loop"
  /\ UNCHANGED <<input, errors, outcome, thrown, result, value, pretty, again, lexer, hist>>

TypedItemHintOnly ==
  /\ AtLoop("typed")
  /\ ~LoopEnds("]")
  /\ AfterCall(ReplaceTop(stack, [Top EXCEPT !.start = cursor.position]),
               CallParser(Top.hint, input, cursor, errors, cursor))
  /\ UNCHANGED <<input, outcome, thrown, result, value, pretty, again, lexer>>

\* parseArrayTypeSpecifier, one pass of the item loop: the item's own prefix
\* selects the production (after an advance), otherwise the hint's
\* production runs at the cursor.
TypedItem ==
  /\ AtLoop("typed")
  /\ ~LoopEnds("]")
  /\ LET char == peek(input, cursor)
         here == ReplaceTop(stack, [Top EXCEPT !.start = cursor.position])
     IN IF char \in ParserKeys
          THEN AfterCall(here, CallParser(char, input, advance(input, cursor), errors, cursor))
          ELSE AfterCall(here, CallParser(Top.hint, input, cursor, errors, cursor))
  /\ UNCHANGED <<input, outcome, thrown, result, value, pretty, again, lexer>>

\* parseArrayTypeSpecifier, after the loop.
TypedClose ==
  /\ AtLoop("typed")
  /\ LoopEnds("]")
  /\ CloseContainer(Arr(Top.items))

\* parseArrayTypeSpecifier, the rest of the loop body.
ReturnToTyped ==
  /\ pc = "ret"
  /\ Top.kind = "typed"
  /\ stack' = ReplaceTop(stack, [Top EXCEPT !.items = push(input, @, ret)])
  /\ cursor' = skipWhitespace(input, cursor)
  /\ ret' = None
  /\ pc' = "loop"
  /\ UNCHANGED <<input, errors, outcome, thrown, result, value, pretty, again, lexer, hist>>

\* parse(), after parseNameOptionalValue: the result is wrapped in a one-key
\* object when the root has a Name, and throwIfErrors decides between
\* throwing TSONParseErrors(errors) and returning the result.
Finish ==
  /\ pc = "ret"
  /\ Top.kind = "root"
  /\ result' = IF Top.name # <<>> THEN Obj(<<[k |-> Top.name, v |-> ret]>>) ELSE ret
  /\ outcome' = IF throwIfErrors(errors) THEN "throw" ELSE "return"
  /\ thrown' = IF throwIfErrors(errors) THEN errors ELSE <<>>
  /\ stack' = <<>>
  /\ ret' = None
  /\ pc' = "done"
  /\ UNCHANGED <<input, cursor, errors, value, pretty, again, lexer, hist>>

ParseStep ==
  \/ Begin
  \/ ParseVal
  \/ ObjectMember
  \/ ObjectClose
  \/ ReturnToObject
  \/ ArrayItem
  \/ ArrayClose
  \/ ReturnToArray
  \/ TypedItem
  \/ TypedClose
  \/ ReturnToTyped
  \/ Finish

Next == ParseStep

Spec == Init /\ [][Next]_vars

FairInit ==
  /\ \E text \in ShortTexts : ParserInit(text)
  /\ value = None
  /\ pretty = FALSE
  /\ again = NoRerun
  /\ lexer = NoLexer

\* A call that is running takes its next step.
FairSpec == FairInit /\ [][Next]_vars /\ WF_vars(Next)

TypeOK ==
  /\ pc \in {"stringify", "start", "val", "loop", "ret", "done", "lex"}
  /\ outcome \in {"none", "return", "throw"}
  /\ cursor.position \in 0..(Len(input) + 8)
  /\ Len(errors) <= ErrorCap(input)
  /\ (pc = "done") = (outcome # "none")
  /\ lexer.outcome \in {"idle", "none", "return", "throw"}
  /\ (pc \in {"val", "loop", "ret"}) => stack # <<>>

\* The model's cap on the lists is never met by a call that ends.
CapUnmet ==
  pc = "done" => Len(errors) < ErrorCap(input)

---------------------------------------------------------------------------
(* TSON.stringify: the text as a sequence of characters *)

\* The backspace and the vertical tab, which a string may hold.
BS == "BS"
VT == "VT"

\* s.replace("x", rep): the first occurrence only.
RECURSIVE ReplaceFirst(_, _, _)
ReplaceFirst(s, x, rep) ==
  IF s = <<>> THEN <<>>
  ELSE IF Head(s) = x THEN rep \o Tail(s)
  ELSE <<Head(s)>> \o ReplaceFirst(Tail(s), x, rep)

\* The chain of replace calls of the string branch, and the double quotes.
StringText(str) ==
  LET e1 == ReplaceChar(str, "\\", <<"\\", "\\">>)
      e2 == ReplaceChar(e1, "\"", <<"\\", "\"">>)
      e3 == ReplaceChar(e2, "\n", <<"\\", "n">>)
      e4 == ReplaceChar(e3, "\r", <<"\\", "r">>)
      e5 == ReplaceChar(e4, "\t", <<"\\", "t">>)
      e6 == ReplaceChar(e5, "\f", <<"\\", "f">>)
      e7 == ReplaceFirst(e6, BS, <<"\\", "b">>)
      e8 == ReplaceChar(e7, VT, <<"\\", "v">>)
  IN <<"\"">> \o e8 \o <<"\"">>

\* The decimal digits of a natural number.
RECURSIVE NatText(_)
NatText(n) ==
  IF n < 10 THEN <<DigitChar(n)>> ELSE NatText(n \div 10) \o <<DigitChar(n % 10)>>

\* k zeros.
RECURSIVE Zeros(_)
Zeros(k) == IF k <= 0 THEN <<>> ELSE <<"0">> \o Zeros(k - 1)

\* `${value}` for the number n / 10^e (of a size written without exponent).
NumberText(n, e) ==
  LET mag == IF n < 0 THEN 0 - n ELSE n
      whole == NatText(mag \div Pow10(e))
      frac == NatText(mag % Pow10(e))
  IN (IF n < 0 THEN <<"-">> ELSE <<>>) \o whole \o
     (IF e = 0 THEN <<>> ELSE <<".">> \o Zeros(e - Len(frac)) \o frac)

\* Number.isInteger(value)
NumberIsInteger(v) == v.t = "num" /\ v.e = 0

\* The boolean and number branches: ?true, ?false, #n, =x.
ScalarText(v) ==
  CASE v.t = "str" -> StringText(v.s)
    [] v.t = "num" ->
         (IF NumberIsInteger(v) THEN <<"#">> ELSE <<"=">>) \o NumberText(v.n, v.e)
    [] v.t = "nan" -> <<"=", "N", "a", "N">>
    [] v.t = "bool" ->
         IF v.b THEN <<"?", "t", "r", "u", "e">> ELSE <<"?", "f", "a", "l", "s", "e">>

\* typeof v === "object" && v !== null && !Array.isArray(v)
IsPlainObject(v) == v.t = "obj"

\* typeof v === "object" && v !== null
IsObjectOrArray(v) == v.t \in {"obj", "arr"}

\* texts.join(delimiter)
RECURSIVE Join(_, _)
Join(texts, delimiter) ==
  IF texts = <<>> THEN <<>>
  ELSE IF Len(texts) = 1 THEN texts[1]
  ELSE texts[1] \o delimiter \o Join(Tail(texts), delimiter)

RECURSIVE Spaces(_)
Spaces(k) == IF k <= 0 THEN <<>> ELSE <<" ">> \o Spaces(k - 1)

\* _indent(depth, indent, pretty): "  ".repeat(indent).repeat(depth)
Indent(depth, indent, isPretty) == IF isPretty THEN Spaces(2 * indent * depth) ELSE <<>>

ReservedKeys ==
  {<<"c","o","n","s","t","r","u","c","t","o","r">>,
   <<"p","r","o","t","o","t","y","p","e">>,
   <<"t","o","S","t","r","i","n","g">>,
   <<"_","_","p","r","o","t","o","_","_">>}

isNamedObjectKey(key) == key \in ReservedKeys

RECURSIVE arrayStringify(_, _, _, _)
RECURSIVE objectStringify(_, _, _, _, _)
RECURSIVE stringifyValue(_, _, _, _)

\* Stringifier.arrayStringify(arr, pretty, depth, globalIndent)
arrayStringify(arr, isPretty, depth, globalIndent) ==
  LET indent == Indent(depth, globalIndent, isPretty)
      innerIndent == Indent(depth + 1, globalIndent, isPretty)
      delimiter == IF isPretty THEN <<"\n">> ELSE <<" ">>
      start == IF isPretty THEN <<"[", "\n">> ELSE <<"[">>
      end == IF isPretty THEN <<"\n">> \o indent \o <<"]">> ELSE <<"]">>
      itemStr(item) ==
        IF IsPlainObject(item)
          THEN IF Len(item.kv) = 1 /\ IsObjectOrArray(item.kv[1].v)
                 THEN IF item.kv[1].v.t = "arr"
                        THEN item.kv[1].k \o arrayStringify(item.kv[1].v.items, isPretty, depth + 1, 2)
                        ELSE item.kv[1].k \o
                             objectStringify(item.kv[1].v, isPretty, depth + 1, globalIndent, TRUE)
                 ELSE objectStringify(item, isPretty, depth + 1, globalIndent, TRUE)
          ELSE stringifyValue(item, isPretty, depth + 1, globalIndent)
      items == [i \in 1..Len(arr) |-> innerIndent \o itemStr(arr[i])]
  IN IF arr = <<>> THEN <<"[", "]">>
     ELSE start \o Join(items, delimiter) \o end

\* Stringifier.stringifyValue(value, pretty, depth, globalIndent)
stringifyValue(v, isPretty, depth, globalIndent) ==
  CASE v.t = "null" -> <<>>
    [] v.t = "arr" -> arrayStringify(v.items, isPretty, depth, globalIndent)
    [] v.t = "obj" -> objectStringify(v, isPretty, depth, globalIndent, TRUE)
    [] OTHER -> ScalarText(v)

\* Stringifier.objectStringify(obj, pretty, depth, globalIndent, useBraces)
objectStringify(obj, isPretty, depth, globalIndent, useBraces) ==
  LET kv == obj.kv
      indent == Indent(depth, globalIndent, isPretty)
      innerIndent == Indent(depth + 1, globalIndent, isPretty)
      delimiter == IF isPretty THEN <<"\n">> ELSE <<" ">>
      start == IF useBraces THEN (IF isPretty THEN <<"{", "\n">> ELSE <<"{">>) ELSE <<>>
      end == IF useBraces THEN (IF isPretty THEN <<"\n">> \o indent \o <<"}">> ELSE <<"}">>)
             ELSE <<>>
      member(m) ==
        innerIndent \o m.k \o
          (CASE m.v.t = "null" -> <<>>
             [] m.v.t = "arr" -> arrayStringify(m.v.items, isPretty, depth + 1, 2)
             [] m.v.t = "obj" -> objectStringify(m.v, isPretty, depth + 1, globalIndent, TRUE)
             [] OTHER -> stringifyValue(m.v, isPretty, 0, 2))
      items == [i \in 1..Len(kv) |-> member(kv[i])]
  IN IF kv = <<>> THEN (IF useBraces THEN <<"{", "}">> ELSE <<>>)
     ELSE IF Len(kv) = 1 /\ ~isNamedObjectKey(kv[1].k) /\ kv[1].v.t = "arr"
       THEN kv[1].k \o arrayStringify(kv[1].v.items, isPretty, depth, 2)
     ELSE IF Len(kv) = 1 /\ ~isNamedObjectKey(kv[1].k) /\ kv[1].v.t = "obj"
       THEN kv[1].k \o objectStringify(kv[1].v, isPretty, depth, globalIndent, TRUE)
     ELSE start \o Join(items, delimiter) \o end

\* Stringifier.stringify(value, pretty), as TSON.stringify calls it.
stringify(v, isPretty) ==
  CASE v.t = "null" -> <<>>
    [] v.t = "arr" -> arrayStringify(v.items, isPretty, 0, 2)
    [] v.t = "obj" -> objectStringify(v, isPretty, 0, 2, TRUE)
    [] OTHER -> ScalarText(v)

---------------------------------------------------------------------------
(* The values stringified *)

\* The scalars of the enumerated values: null, a boolean, an integer, a
\* non-integral float, a plain string and a string with a quote and a
\* backslash.
Scalars ==
  {Null, Bool(TRUE), Num(1, 0), Num(15, 1), Str(<<"s">>), Str(<<"q", "\"", "\\">>)}

\* The keys of the enumerated objects.
Keys == {<<"a">>, <<"b">>}

RECURSIVE ValuesOfSize(_)
RECURSIVE ListsOfSize(_)

\* The sequences of values whose sizes add up to m.
ListsOfSize(m) ==
  IF m = 0 THEN {<<>>}
  ELSE UNION {{<<v>> \o rest : v \in ValuesOfSize(k), rest \in ListsOfSize(m - k)} :
              k \in 1..m}

\* The objects over the members of a list, under every choice of distinct keys.
ObjectsOver(list) ==
  {Obj([i \in 1..Len(list) |-> [k |-> keys[i], v |-> list[i]]]) :
     keys \in {f \in [1..Len(list) -> Keys] :
                 \A i, j \in 1..Len(list) : i # j => f[i] # f[j]}}

\* The values of exactly n nodes.
ValuesOfSize(n) ==
  (IF n = 1 THEN Scalars ELSE {})
    \cup {Arr(list) : list \in ListsOfSize(n - 1)}
    \cup UNION {ObjectsOver(list) : list \in ListsOfSize(n - 1)}

\* The values of at most maxNodes nodes.
Values(maxNodes) == UNION {ValuesOfSize(n) : n \in 1..maxNodes}

\* Equality of values as the tests take it (toEqual): the order of an
\* object's keys does not count.
RECURSIVE SameValue(_, _)
SameValue(x, y) ==
  IF x.t # y.t THEN FALSE
  ELSE CASE x.t = "arr" ->
              /\ Len(x.items) = Len(y.items)
              /\ \A i \in 1..Len(x.items) : SameValue(x.items[i], y.items[i])
         [] x.t = "obj" ->
              /\ Len(x.kv) = Len(y.kv)
              /\ \A i \in 1..Len(x.kv) : \E j \in 1..Len(y.kv) :
                   x.kv[i].k = y.kv[j].k /\ SameValue(x.kv[i].v, y.kv[j].v)
         [] OTHER -> x = y

---------------------------------------------------------------------------
(* TSON.parse(TSON.stringify(value, pretty)) *)

\* What a reserved key holds in ReservedValues.
ReservedHeld ==
  {Num(1, 0), Arr(<<>>), Obj(<<>>), Obj(<<[k |-> <<"a">>, v |-> Num(1, 0)]>>)}

\* The single-entry object of a key.
Single(key, v) == Obj(<<[k |-> key, v |-> v]>>)

\* A single-entry object under a reserved key, as the root, as the value of
\* a property and as an item of an array.
ReservedValues ==
  UNION {{Single(key, v), Single(<<"a">>, Single(key, v)), Arr(<<Single(key, v)>>)} :
         key \in ReservedKeys, v \in ReservedHeld}

\* A client stringifies a value and parses the text written.
StringifyInit ==
  /\ value \in Values(MaxNodes) \cup ReservedValues
  /\ pretty \in BOOLEAN
  /\ again = NoRerun
  /\ lexer = NoLexer
  /\ input = <<>>
  /\ cursor = StartCursor
  /\ errors = <<>>
  /\ stack = <<>>
  /\ ret = None
  /\ pc = "stringify"
  /\ outcome = "none"
  /\ thrown = <<>>
  /\ result = None
  /\ hist = NoHistory

\* TSON.stringify(value, pretty); its text is then handed to TSON.parse.
Stringify ==
  /\ pc = "stringify"
  /\ input' = stringify(value, pretty)
  /\ pc' = "start"
  /\ UNCHANGED <<cursor, errors, stack, ret, outcome, thrown, result, value, pretty, again, lexer, hist>>

\* TSON.parse is called with a text a client wrote or with the text
\* TSON.stringify wrote for a client's value.
RoundTripInit == Init \/ StringifyInit

RoundTripNext == Stringify \/ ParseStep

RoundTripSpec == RoundTripInit /\ [][RoundTripNext]_vars

---------------------------------------------------------------------------
(* Properties of TSON.parse *)

Containers == {"obj", "arr", "typed"}

\* C1: the cursor advances before a member loop resumes: when a pass of the
\* loop of an object, an array or a typed array ends, the cursor stands
\* beyond the position at which the pass began, so that no loop repeats
\* forever at one position and every call ends.
C1_MemberLoopAdvances ==
  [][(pc = "ret" /\ stack # <<>> /\ Top.kind \in Containers)
       => cursor'.position > Top.start]_vars

\* C3: a call in which the input ended while an object, an array or a typed
\* array was still open throws.
C3_OpenAtEndThrows ==
  (pc = "done" /\ hist.openAtEnd) => outcome = "throw"

\* C4: when the input ends inside a container, leaving its loop records
\* exactly one diagnostic, whose start cursor is the cursor of the opening
\* bracket, and the container built so far is returned.
C4_MissingCloseOneDiagnostic ==
  [][(pc = "loop" /\ stack # <<>> /\ Top.kind \in Containers /\ isAtEnd(input, cursor))
       => /\ Len(errors') = Len(errors) + 1
          /\ errors'[Len(errors')].cursor = Top.open
          /\ ret' = IF Top.kind = "obj" THEN Obj(Top.items) ELSE Arr(Top.items)]_vars

\* A member that does not start with what its container requires: in an
\* object, neither "}" nor a Name character; in an array, neither "]" nor
\* a Name character nor a value prefix.
BadMember ==
  /\ pc = "loop"
  /\ stack # <<>>
  /\ ~isAtEnd(input, cursor)
  /\ \/ /\ Top.kind = "obj"
        /\ peek(input, cursor) # "}"
        /\ ~IsNamePart(peek(input, cursor))
     \/ /\ Top.kind = "arr"
        /\ peek(input, cursor) # "]"
        /\ ~IsNamePart(peek(input, cursor))
        /\ peek(input, cursor) \notin ParserKeys

\* C5: a call that meets a member that does not start with what its
\* container requires throws.
C5_BadMemberThrows ==
  BadMember ~> (pc = "done" /\ outcome = "throw")

\* C6: a call in which a string literal ended without its closing quote, at
\* the end of the input or at a raw newline, throws.
C6_UnterminatedStringThrows ==
  (pc = "done" /\ (hist.stringAtEnd \/ hist.stringAtNewline)) => outcome = "throw"

ValidCursor(c) == c.line >= 1 /\ c.column >= 1

\* C8: a batch thrown holds at least one diagnostic, and the cursor and the
\* end cursor of each have line >= 1 and column >= 1.
C8_ThrownBatchValid ==
  outcome = "throw" =>
    /\ Len(thrown) >= 1
    /\ \A i \in 1..Len(thrown) :
         ValidCursor(thrown[i].cursor) /\ ValidCursor(thrown[i].endCursor)

\* A batch thrown with a diagnostic at the first column of a later line.
C8_Witness ==
  /\ outcome = "throw"
  /\ \E i \in 1..Len(thrown) : thrown[i].cursor.line >= 2 /\ thrown[i].cursor.column = 1

\* A Name with no value suffix: parseVal is about to run after a Name, at a
\* separator, a closing bracket or the end of the input.
BareName ==
  /\ pc = "val"
  /\ Top.name # <<>>
  /\ peek(input, cursor) \in SeparatorChars \cup {"}", "]", NUL}

\* C10: a Name with no value suffix decodes to null and records no
\* diagnostic.
C10_NullByAbsence ==
  [][BareName => (ret' = Null /\ errors' = errors)]_vars

---------------------------------------------------------------------------
(* Properties of TSON.stringify *)

\* C2: the text stringify writes for a value parses, without error, to an
\* equal value.
C2_RoundTrip ==
  (pc = "done" /\ value # None) => (outcome = "return" /\ SameValue(result, value))

\* Whether pat occurs in text.
Occurs(pat, text) ==
  \E i \in 0..(Len(text) - Len(pat)) : SubSeq(text, i + 1, i + Len(pat)) = pat

\* C9: an object that is the value of a property keeps its braces: in the
\* text of an object, the key of each property whose value is an object is
\* followed at once by "{".
C9_NestedObjectKeepsBraces ==
  (pc = "start" /\ value.t = "obj") =>
    \A i \in 1..Len(value.kv) :
      value.kv[i].v.t = "obj" => Occurs(value.kv[i].k \o <<"{">>, input)

---------------------------------------------------------------------------
(* Object members without a value *)

\* parseVal is entered for an object member whose Name is followed at once
\* by the closing brace.
NameThenClose ==
  /\ pc = "val"
  /\ Top.kind = "obj"
  /\ Top.name # <<>>
  /\ peek(input, cursor) = "}"

\* A text made of one object with one member that is a Name and nothing else.
NameOnlyObject(text) ==
  /\ Len(text) >= 3
  /\ text[1] = "{"
  /\ text[Len(text)] = "}"
  /\ \A i \in 2..(Len(text) - 1) : IsNamePart(text[i])

---------------------------------------------------------------------------
(* Typed arrays *)

\* The item loop of a typed array stands at an item.
AtTypedItem == AtLoop("typed") /\ ~LoopEnds("]")

\* Whether the text at the cursor spells word.
Spells(word) ==
  \A i \in 1..Len(word) : charAt(input, cursor.position + i - 1) = word[i]

\* The kind of value each scalar prefix decodes to.
DecodedBy(prefix, v) ==
  CASE prefix = "#" -> v.t \in {"num", "nan"} /\ (v.t = "num" => v.e = 0)
    [] prefix = "=" -> v.t \in {"num", "nan"}
    [] prefix = "?" -> v.t = "bool"
    [] prefix = "~" -> v = Null
    [] prefix = "\"" -> v.t = "str"

\* The kind of frame each container prefix opens.
OpenedBy(prefix) ==
  CASE prefix = "{" -> "obj" [] prefix = "[" -> "arr" [] prefix = "<" -> "typed"

\* An item with its own prefix is decoded by that prefix, whatever the hint.
OwnPrefixDecides ==
  LET prefix == peek(input, cursor)
  IN (AtTypedItem /\ prefix \in ParserKeys) =>
       IF prefix \in {"{", "[", "<"}
         THEN \/ pc' = "loop" /\ Len(stack') = Len(stack) + 1
                 /\ stack'[Len(stack')].kind = OpenedBy(prefix)
              \/ prefix = "<" /\ pc' = "ret" /\ ret' = Arr(<<>>)
                 /\ Len(errors') = Len(errors) + 1
         ELSE pc' = "ret" /\ DecodedBy(prefix, ret')

\* An item without prefix is decoded under the hint: a literal that starts
\* with a digit to an integer under "#" and to a number under "=", the words
\* true and false to the booleans under "?".
HintDecides ==
  LET char == peek(input, cursor)
  IN (AtTypedItem /\ char \notin ParserKeys) =>
       /\ (Top.hint = "#" /\ char \in Digits) =>
            (pc' = "ret" /\ ret'.t = "num" /\ ret'.e = 0 /\ errors' = errors)
       /\ (Top.hint = "=" /\ char \in Digits) =>
            (pc' = "ret" /\ ret'.t = "num" /\ errors' = errors)
       /\ (Top.hint = "?" /\ Spells(<<"t","r","u","e">>)) =>
            (pc' = "ret" /\ ret' = Bool(TRUE) /\ errors' = errors)
       /\ (Top.hint = "?" /\ Spells(<<"f","a","l","s","e">>)) =>
            (pc' = "ret" /\ ret' = Bool(FALSE) /\ errors' = errors)

\* What the typed arrays of the specification and of the tests decode to.
TypedExamplesDecoded ==
  pc = "done" =>
    /\ input = ExTyped =>
         /\ outcome = "return"
         /\ result = Obj(<<[k |-> <<"n","u","m","s">>,
                            v |-> Arr(<<Num(1, 0), Num(2, 0), Num(3, 0)>>)]>>)
    /\ input = ExTypedOverride =>
         outcome = "return" /\ result = Arr(<<Num(1, 0), Num(2, 0), Bool(TRUE)>>)
    /\ input = ExTypedNested =>
         /\ outcome = "return"
         /\ result = Arr(<<Num(1, 0), Num(2, 0), Arr(<<Num(3, 0), Num(4, 0)>>)>>)
    /\ input = ExTypedPrefixed =>
         /\ outcome = "return"
         /\ result = Arr(<<Num(1, 0), Num(25, 1), Null, Str(<<"s">>),
                           Obj(<<[k |-> <<"a">>, v |-> Num(1, 0)]>>),
                           Arr(<<Num(2, 0)>>)>>)
    /\ input = ExTypedFloat =>
         /\ outcome = "return"
         /\ result = Obj(<<[k |-> <<"p">>, v |-> Arr(<<Num(105, 1), Num(5, 0)>>)]>>)
    /\ input = ExTypedBoolean =>
         /\ outcome = "return"
         /\ result = Obj(<<[k |-> <<"f">>, v |-> Arr(<<Bool(TRUE), Bool(FALSE)>>)]>>)

\* C12: in a typed array an unprefixed item is decoded under the hint and an
\* item with its own prefix by that prefix; nums<#>[1, 2, 3] gives
\* {nums:[1,2,3]}, <#>[1, 2, ?true] gives [1,2,true] and
\* <#>[1, 2, <#>[3, 4]] gives [1,2,[3,4]].
C12_TypedArrayItems ==
  /\ [][OwnPrefixDecides /\ HintDecides]_vars
  /\ []TypedExamplesDecoded

C12_Witness ==
  /\ pc = "done"
  /\ input = ExTypedOverride
  /\ outcome = "return"
  /\ result = Arr(<<Num(1, 0), Num(2, 0), Bool(TRUE)>>)

---------------------------------------------------------------------------
(* Typed-array headers *)

\* The production of "<" is about to be called on the "<" at the cursor: by
\* parseVal, or as the own prefix of an item of a typed array.
AtTypeSpecifier ==
  /\ pc = "val" \/ AtTypedItem
  /\ peek(input, cursor) = "<"

\* The header that starts at the cursor is not "<T>[" with T one of "#",
\* "=", "?".
HeaderRejectedBySpec ==
  \/ charAt(input, cursor.position + 1) \notin {"#", "=", "?"}
  \/ charAt(input, cursor.position + 2) # ">"
  \/ charAt(input, cursor.position + 3) # "["

\* C13: a typed-array header whose type character is not "#", "=" or "?", or
\* whose ">" or "[" is missing, records a diagnostic.
C13_BadHeaderDiagnostic ==
  [][(AtTypeSpecifier /\ HeaderRejectedBySpec) => Len(errors') = Len(errors) + 1]_vars

---------------------------------------------------------------------------
(* Numeric literals *)

\* The production of "#" or "=" is about to be called on the prefix at the
\* cursor.
AtNumberPrefix ==
  /\ pc = "val" \/ AtTypedItem
  /\ peek(input, cursor) \in {"#", "="}

\* The literal that production scans.
NumberLiteral == ScanLiteral(input, advance(input, cursor), <<>>).str

\* ^[+-]?[0-9]+$
IsIntegerLiteral(s) ==
  LET i1 == IF Len(s) >= 1 /\ s[1] \in {"+", "-"} THEN 2 ELSE 1
  IN i1 <= Len(s) /\ DigitsEnd(s, i1) = Len(s) + 1

\* A sign, digits with at most one decimal point, and an exponent that, when
\* present, has digits; nothing else.
IsFloatLiteral(s) ==
  LET i1 == IF Len(s) >= 1 /\ s[1] \in {"+", "-"} THEN 2 ELSE 1
      i2 == DigitsEnd(s, i1)
      dot == i2 <= Len(s) /\ s[i2] = "."
      i3 == IF dot THEN DigitsEnd(s, i2 + 1) ELSE i2
      hasE == i3 <= Len(s) /\ s[i3] \in {"e", "E"}
      j1 == IF hasE /\ i3 + 1 <= Len(s) /\ s[i3 + 1] \in {"+", "-"} THEN i3 + 2 ELSE i3 + 1
      j2 == IF hasE THEN DigitsEnd(s, j1) ELSE i3
  IN /\ (i2 - i1) + (IF dot THEN i3 - (i2 + 1) ELSE 0) > 0
     /\ hasE => j2 > j1
     /\ j2 = Len(s) + 1

\* C14: a malformed literal after "=" or "#" records a diagnostic.
C14_MalformedNumberDiagnostic ==
  [][/\ (AtNumberPrefix /\ peek(input, cursor) = "=" /\ ~IsFloatLiteral(NumberLiteral))
          => Len(errors') = Len(errors) + 1
     /\ (AtNumberPrefix /\ peek(input, cursor) = "#" /\ ~IsIntegerLiteral(NumberLiteral))
          => Len(errors') = Len(errors) + 1]_vars

---------------------------------------------------------------------------
(* Boolean literals *)

\* The production of "?" is about to be called on the "?" at the cursor.
AtBooleanPrefix ==
  /\ pc = "val" \/ AtTypedItem
  /\ peek(input, cursor) = "?"

\* The run of characters after the "?", up to the next terminator or the end
\* of the input, and the cursor at its end.
BooleanRun == ScanLiteral(input, advance(input, cursor), <<>>)

BooleanWords == {<<"t","r","u","e">>, <<"f","a","l","s","e">>}

\* C15: after "?", a run that is neither true nor false records a
\* diagnostic and is consumed up to, and not beyond, the next terminator.
C15_InvalidBooleanConsumed ==
  [][(AtBooleanPrefix /\ BooleanRun.str \notin BooleanWords) =>
       /\ Len(errors') = Len(errors) + 1
       /\ cursor' = BooleanRun.cur]_vars

---------------------------------------------------------------------------
(* null in the text written *)

\* TSON.stringify has written the text of value.
Stringified == pc = "start" /\ value # None

\* How many times the character x occurs in text.
RECURSIVE CountChar(_, _)
CountChar(text, x) ==
  IF text = <<>> THEN 0
  ELSE (IF Head(text) = x THEN 1 ELSE 0) + CountChar(Tail(text), x)

\* The sum of f over the indices 1..n.
RECURSIVE SumOver(_, _)
SumOver(f, n) == IF n = 0 THEN 0 ELSE f[n] + SumOver(f, n - 1)

\* How many nulls a value holds.
RECURSIVE CountNulls(_)
CountNulls(v) ==
  CASE v.t = "null" -> 1
    [] v.t = "arr" -> SumOver([i \in 1..Len(v.items) |-> CountNulls(v.items[i])], Len(v.items))
    [] v.t = "obj" -> SumOver([i \in 1..Len(v.kv) |-> CountNulls(v.kv[i].v)], Len(v.kv))
    [] OTHER -> 0

\* C16: every null of the value is written as "~": at the root the text is
\* "~", and the text holds one "~" for each null of the value.
C16_NullWrittenAsTilde ==
  Stringified =>
    /\ value = Null => input = <<"~">>
    /\ CountChar(input, "~") = CountNulls(value)

---------------------------------------------------------------------------
(* Integer and float *)

\* parse has returned the number a float literal at the root spells.
FloatDecoded ==
  /\ pc = "done"
  /\ outcome = "return"
  /\ input # <<>>
  /\ input[1] = "="
  /\ result.t = "num"

\* C17: the number decoded from a float literal is written back with the
\* float prefix "=", also when its value is integral.
C17_FloatPrefixKept ==
  FloatDecoded => Head(stringify(result, FALSE)) = "="

---------------------------------------------------------------------------
(* Strings *)

\* Whether the character x occurs in the string s.
Holds(s, x) == \E i \in 1..Len(s) : s[i] = x

\* The delimiter quote selection gives a string.
SelectedQuote(s) == IF Holds(s, "\"") /\ ~Holds(s, "'") THEN "'" ELSE "\""

\* C18: a string is delimited with the single quote when it holds a double
\* quote and no single quote, and with the double quote otherwise.
C18_QuoteSelection ==
  (Stringified /\ value.t = "str") =>
    /\ input[1] = SelectedQuote(value.s)
    /\ input[Len(input)] = SelectedQuote(value.s)

\* The escapes of the body of a literal decoded left to right; a backslash
\* before any other character is kept.
RECURSIVE DecodeLeftToRight(_)
DecodeLeftToRight(body) ==
  IF body = <<>> THEN <<>>
  ELSE IF Head(body) = "\\" /\ Len(body) >= 2 /\ body[2] \in {"\"", "\\", "n", "r", "t"}
    THEN <<CASE body[2] = "n" -> "\n" [] body[2] = "r" -> "\r" [] body[2] = "t" -> "\t"
             [] OTHER -> body[2]>> \o DecodeLeftToRight(Tail(Tail(body)))
  ELSE <<Head(body)>> \o DecodeLeftToRight(Tail(body))

\* The index of the first double quote at or after i that no backslash
\* escapes, 0 when there is none.
RECURSIVE ClosingQuote(_, _)
ClosingQuote(text, i) ==
  IF i > Len(text) THEN 0
  ELSE IF text[i] = "\"" THEN i
  ELSE IF text[i] = "\\" THEN ClosingQuote(text, i + 2)
  ELSE ClosingQuote(text, i + 1)

\* The text is one string literal, after a Name or without one: it opens
\* with a double quote at index open, and its closing quote is its last
\* character.
LiteralAt(text, open) ==
  /\ open < Len(text)
  /\ text[open] = "\""
  /\ ClosingQuote(text, open + 1) = Len(text)
  /\ \A i \in 1..(open - 1) : IsNamePart(text[i])
  /\ \A i \in (open + 1)..Len(text) : text[i] # "\n"

\* C19: the escapes of a string literal are decoded left to right, two
\* backslashes to one, an unknown escape kept as it is.
C19_EscapesDecoded ==
  pc = "done" =>
    \A open \in 1..Len(input) :
      LiteralAt(input, open) =>
        LET decoded == Str(DecodeLeftToRight(SubSeq(input, open + 1, Len(input) - 1)))
        IN /\ outcome = "return"
           /\ result = IF open = 1 THEN decoded
                       ELSE Obj(<<[k |-> SubSeq(input, 1, open - 1), v |-> decoded]>>)


\* C20: a literal delimited by single quotes is accepted as one delimited by
\* double quotes is, and the other kind of quote may stand inside a literal
\* unescaped.
C20_SingleQuotedAccepted ==
  pc = "done" =>
    /\ input = ExSingleQuoted =>
         /\ outcome = "return"
         /\ result = Obj(<<[k |-> <<"t">>, v |-> Str(<<"H", "i">>)]>>)
    /\ input = ExDoubleInSingle =>
         /\ outcome = "return"
         /\ result = Obj(<<[k |-> <<"t">>, v |-> Str(<<"a", "\"", "b", "\"">>)]>>)
    /\ input = ExSingleInDouble =>
         /\ outcome = "return"
         /\ result = Obj(<<[k |-> <<"t">>, v |-> Str(<<"a", "'", "b", "'">>)]>>)

---------------------------------------------------------------------------
(* Reserved keys *)

\* The text without its spaces and newlines.
RECURSIVE Compact(_)
Compact(text) ==
  IF text = <<>> THEN <<>>
  ELSE (IF Head(text) \in {" ", "\n"} THEN <<>> ELSE <<Head(text)>>) \o Compact(Tail(text))

\* The reserved key of a value of ReservedValues.
ReservedKeyOf(v) ==
  CHOOSE key \in ReservedKeys :
    \E held \in ReservedHeld :
      v \in {Single(key, held), Single(<<"a">>, Single(key, held)), Arr(<<Single(key, held)>>)}

\* C21: a single-entry object whose key is reserved is written with its
\* braces at the root, as a property value and as an array item: in the
\* text its key follows a "{".
C21_ReservedKeyKeepsBraces ==
  (Stringified /\ value \in ReservedValues) =>
    Occurs(<<"{">> \o ReservedKeyOf(value), Compact(input))

---------------------------------------------------------------------------
(* Repeated keys *)

\* parseObject is about to store the member just read under a key the
\* object already has.
RepeatsKey ==
  /\ pc = "ret"
  /\ Top.kind = "obj"
  /\ \E i \in 1..Len(Top.items) : Top.items[i].k = Top.name

\* The keys of an object, in order.
KeysOf(kv) == [i \in 1..Len(kv) |-> kv[i].k]

\* On a repeated key the object keeps its keys and their order, the key
\* takes the new value, the other keys keep theirs, and no diagnostic is
\* recorded.
LastWriteWins ==
  RepeatsKey =>
    LET old == Top.items
        new == stack'[Len(stack')].items
    IN /\ Len(stack') = Len(stack)
       /\ KeysOf(new) = KeysOf(old)
       /\ \A i \in 1..Len(old) : new[i].v = IF old[i].k = Top.name THEN ret ELSE old[i].v
       /\ errors' = errors

\* Every object under construction holds each of its keys once.
KeysOnce ==
  \A d \in 1..Len(stack) :
    stack[d].kind = "obj" =>
      \A i, j \in 1..Len(stack[d].items) :
        stack[d].items[i].k = stack[d].items[j].k => i = j

---------------------------------------------------------------------------
(* Separators: a text and a text that differs from it by a run of         *)
(* separators are parsed one after the other                               *)

\* The runs of separators put into a text.
SeparatorRuns == {<<",">>, <<" ">>, <<"\n", ",">>, <<"\t", "\r">>}

\* The characters of the texts varied: those of Alphabet outside string
\* literals.
PlainAlphabet == Alphabet \ {"\"", "\\"}

\* a null as the last item of an array that is itself followed by an item
ExNullThenClose ==
  <<"[","[","~","]",",","#","1","]">>

\* escape.test.ts:666, with names cut short and two items per array
ExSeparated ==
  <<"d","{","\n","i","<","#",">","[","1",","," ","2","]",",","\n","f","<","?",">","["," ","t","r","u","e",","," ","f","a","l","s","e","]","\n","}">>

\* The texts varied.
Bases(maxLen) ==
  UNION {[1..n -> PlainAlphabet] : n \in 0..maxLen} \cup {ExNullThenClose, ExSeparated, ExTyped}

\* The text with run put after its first p characters.
Insert(text, p, run) == SubSeq(text, 1, p) \o run \o SubSeq(text, p + 1, Len(text))

\* Whether a run may be added after the first p characters of the text:
\* before the root, after the bracket that opens a container (before its
\* first member) or before a bracket that closes one (after its last
\* member).  The character between "<" and ">" is no bracket.
Boundary(text, p) ==
  LET bracket(i) == i = 1 \/ text[i - 1] # "<"
  IN \/ p = 0
     \/ p >= 1 /\ text[p] \in {"{", "["} /\ bracket(p)
     \/ p < Len(text) /\ text[p + 1] \in {"}", "]"} /\ bracket(p + 1)

\* The maximal run of separators of the text that starts at index i ends at
\* index RunEnd(text, i) - 1.
RECURSIVE RunEnd(_, _)
RunEnd(text, i) ==
  IF i <= Len(text) /\ text[i] \in SeparatorChars THEN RunEnd(text, i + 1) ELSE i

\* Whether a maximal run of separators starts at index i of the text and
\* lies between two members: after the last character of one (a closing
\* bracket, a character of a literal or "~") and before the first of another.
BetweenMembers(text, i) ==
  /\ i >= 2
  /\ text[i] \in SeparatorChars
  /\ text[i - 1] \in {"}", "]", "n", "1", "~"}
  /\ RunEnd(text, i) <= Len(text)
  /\ text[RunEnd(text, i)] \notin {"}", "]", ">"}

\* The texts that differ from text by one run of separators: a run added at
\* a boundary, or the run between two members replaced by another.
Variants(text) ==
  {Insert(text, p, run) : p \in {q \in 0..Len(text) : Boundary(text, q)}, run \in SeparatorRuns}
    \cup
  {SubSeq(text, 1, i - 1) \o run \o SubSeq(text, RunEnd(text, i), Len(text)) :
     i \in {j \in 1..Len(text) : BetweenMembers(text, j)}, run \in SeparatorRuns}

SeparatorInit ==
  /\ \E text \in Bases(MaxPairLen) : \E other \in Variants(text) :
       /\ ParserInit(text)
       /\ again = [pending |-> TRUE, text |-> other, outcome |-> "none", result |-> None]
  /\ lexer = NoLexer
  /\ value = None
  /\ pretty = FALSE

\* The first call has ended: what it did is kept and TSON.parse is called on
\* the second text.
ParseAgain ==
  /\ pc = "done"
  /\ again.pending
  /\ again' = [pending |-> FALSE, text |-> input, outcome |-> outcome, result |-> result]
  /\ input' = again.text
  /\ cursor' = StartCursor
  /\ errors' = <<>>
  /\ stack' = <<>>
  /\ ret' = None
  /\ pc' = "start"
  /\ outcome' = "none"
  /\ thrown' = <<>>
  /\ result' = None
  /\ hist' = NoHistory
  /\ UNCHANGED <<value, pretty, lexer>>

SeparatorNext == ParseStep \/ ParseAgain

SeparatorSpec == SeparatorInit /\ [][SeparatorNext]_vars

\* Both calls have ended.
BothParsed == pc = "done" /\ ~again.pending /\ again.outcome # "none"

\* C23: a text and the text that differs from it by a run of separators
\* between members, before the first member, after the last member or
\* before the root decode alike: both calls throw, or both return the same
\* value.
C23_SeparatorsInsignificant ==
  BothParsed =>
    /\ outcome = again.outcome
    /\ outcome = "return" => result = again.result

---------------------------------------------------------------------------
(* Where the scan of an unquoted literal stops *)

\* The characters an unquoted literal ends at, as the specification lists
\* them.
LiteralStops == WhitespaceChars \cup {"{", ",", "}", "]", "\"", ":", ";"}

\* The offset of the first of those characters at or after offset p, or the
\* length of the input.
RECURSIVE FirstStop(_, _)
FirstStop(inp, p) ==
  IF p >= Len(inp) \/ inp[p + 1] \in LiteralStops THEN p ELSE FirstStop(inp, p + 1)

\* The item loop of a typed array stands at an item without prefix, which
\* the production of the hint scans from the cursor.
AtUnprefixedItem == AtTypedItem /\ peek(input, cursor) \notin ParserKeys

\* The text after a "?" at the cursor is rejected.
AtRejectedBoolean == AtBooleanPrefix /\ BooleanRun.str \notin BooleanWords

\* C24: the scan of an unquoted literal (the digits after "#" or "=", an
\* item without prefix of a typed array of numbers or booleans, and the
\* rejected text after "?") stops at the first of the characters
\* { , } ] " : ; and whitespace, or at the end of the input, and nowhere
\* else.
C24_LiteralScanStops ==
  [][/\ (AtNumberPrefix \/ AtRejectedBoolean)
          => cursor'.position = FirstStop(input, cursor.position + 1)
     /\ (AtUnprefixedItem /\ Top.hint \in {"#", "="})
          => cursor'.position = FirstStop(input, cursor.position)
     /\ (AtUnprefixedItem /\ Top.hint = "?"
           /\ ScanLiteral(input, cursor, <<>>).str \notin BooleanWords)
          => cursor'.position = FirstStop(input, cursor.position)]_vars

---------------------------------------------------------------------------
(* The null marker *)

\* The production of "~" is about to be called on the "~" at the cursor.
AtNullPrefix ==
  /\ pc = "val" \/ AtTypedItem
  /\ peek(input, cursor) = "~"

\* C25: decoding "~" consumes that one character and leaves the next to the
\* next production: [~~] decodes to two nulls, [~"x"] to null and the string
\* x, and the "}" of {a~} closes the object.
C25_NullConsumesOneCharacter ==
  /\ [][AtNullPrefix => cursor'.position = cursor.position + 1]_vars
  /\ [](pc = "done" =>
          /\ input = ExTwoNulls =>
               (outcome = "return" /\ result = Arr(<<Null, Null>>))
          /\ input = ExNullThenString =>
               (outcome = "return" /\ result = Arr(<<Null, Str(<<"x">>)>>))
          /\ input = ExNullMember =>
               (outcome = "return" /\ result = Obj(<<[k |-> <<"a">>, v |-> Null]>>)))

---------------------------------------------------------------------------
(* The text after the root value *)

\* The characters of the input from the cursor on.
Rest == {input[i] : i \in {j \in 1..Len(input) : j > cursor.position}}

\* C26: when TSON.parse returns a value, every character after the end of
\* the root value is a separator; other text after a complete root value
\* makes the call throw.
C26_WholeInputAccounted ==
  (pc = "done" /\ outcome = "return") => Rest \subseteq SeparatorChars

---------------------------------------------------------------------------
(* Where the diagnostics point *)

\* The number of newlines among the first p characters of the input.
Newlines(inp, p) == Cardinality({i \in 1..p : i <= Len(inp) /\ inp[i] = "\n"})

\* The number of characters among the first p after the last newline.
SinceNewline(inp, p) ==
  LET breaks == {i \in 1..p : i <= Len(inp) /\ inp[i] = "\n"}
      last == IF breaks = {} THEN 0 ELSE CHOOSE i \in breaks : \A j \in breaks : j <= i
  IN p - last

\* The cursor points into the input, at the line and column of its offset.
PointsInto(inp, c) ==
  /\ c.position \in 0..Len(inp)
  /\ c.line = 1 + Newlines(inp, c.position)
  /\ c.column = 1 + SinceNewline(inp, c.position)

\* C27: the cursor and the end cursor of every diagnostic have an offset
\* between 0 and the length of the input, the line and the column of that
\* offset, and the end cursor is not before the cursor.
C27_DiagnosticsPointIntoInput ==
  \A i \in 1..Len(errors) :
    /\ PointsInto(input, errors[i].cursor)
    /\ PointsInto(input, errors[i].endCursor)
    /\ errors[i].endCursor.position >= errors[i].cursor.position

---------------------------------------------------------------------------
(* Names *)

\* NAME_START_REGEX
IsNameStart(c) == c \in Letters \cup {"_", "$"}

\* C28: a Name starts with a letter, "_" or "$": no text that starts with a
\* digit, "." or "-" is taken as the Name of a member, of an item or of the
\* root, and {1a#2} does not decode to an object with the key 1a.
C28_NameStart ==
  /\ \A i \in 1..Len(stack) : stack[i].name # <<>> => IsNameStart(stack[i].name[1])
  /\ (pc = "done" /\ input = ExDigitName) =>
       ~(outcome = "return" /\ result = Obj(<<[k |-> <<"1", "a">>, v |-> Num(2, 0)]>>))

---------------------------------------------------------------------------
(* The diagnostics recorded stay as recorded *)

\* C29: a diagnostic holds copies of the cursors: once recorded, its offset,
\* line and column (start and end) stay the same however far the live
\* cursor moves, and no diagnostic recorded is removed or reordered.
C29_DiagnosticsKept ==
  [][/\ Len(errors') >= Len(errors)
     /\ \A i \in 1..Len(errors) : errors'[i] = errors[i]]_vars

\* Two diagnostics are recorded at different places and the live cursor has
\* moved past the first.
C29_Witness ==
  /\ Len(errors) >= 2
  /\ errors[1].cursor # errors[2].cursor
  /\ errors[1].endCursor.position < cursor.position

---------------------------------------------------------------------------
(* The Lexer: Lexer.tokenize, one call of scanToken per step               *)

\* The texts tokenized hold at most MaxLexLen characters, or are examples.
MaxLexLen == 3

Token(type, val, line, column) ==
  [type |-> type, value |-> val, line |-> line, column |-> column]

\* new Lexer(text), with tokenize() running.
NewLexer ==
  [position |-> 0, line |-> 1, column |-> 1, tokens |-> <<>>, outcome |-> "none",
   returned |-> <<>>]

LexerIsAtEnd(inp, L) == L.position >= Len(inp)

\* Lexer.advance(): the state after it (it returns charAt(inp, L.position)).
LexerAdvance(L) == [L EXCEPT !.position = @ + 1, !.column = @ + 1]

LexerPeek(inp, L) == IF LexerIsAtEnd(inp, L) THEN NUL ELSE inp[L.position + 1]

LexerPeekNext(inp, L) == IF L.position + 1 >= Len(inp) THEN NUL ELSE inp[L.position + 2]

addToken(L, type, val) ==
  [L EXCEPT !.tokens = Append(@, Token(type, val, L.line, L.column - Len(val)))]

LexerIsDigit(c) == c \in Digits

LexerIsNameStart(c) == c \in Letters \cup {"_", "$"}

LexerIsNamePart(c) == LexerIsNameStart(c) \/ LexerIsDigit(c) \/ c \in {"_", ".", "-"}

isNextWhitespaceOrDelimiter(inp, L) ==
  LexerPeek(inp, L) \in {" ", "\t", "\r", "\n", ",", "]", "}", NUL}

isSpecialOperator(c) == c \in {"{", "[", "\"", "=", "#", "&", "<", ">"}

\* What a scanning method hands back: the Lexer after it and the error it
\* threw ("none" when it returned); named is scanName's return value.
Scanned(L, error) == [lex |-> L, error |-> error, named |-> FALSE]

\* The loop of scanLineComment: up to a newline or the end of the input.
RECURSIVE LineCommentLoop(_, _, _)
LineCommentLoop(inp, L, text) ==
  IF LexerPeek(inp, L) # "\n" /\ ~LexerIsAtEnd(inp, L)
    THEN LineCommentLoop(inp, LexerAdvance(L), Append(text, charAt(inp, L.position)))
    ELSE [lex |-> L, text |-> text]

scanLineComment(inp, L) ==
  LET second == charAt(inp, L.position)
      r == LineCommentLoop(inp, LexerAdvance(L), <<"/", second>>)
  IN Scanned(addToken(r.lex, "COMMENT_LINE", r.text), "none")

\* The loop of scanBlockComment: up to "*/" or the end of the input.
RECURSIVE BlockCommentLoop(_, _, _)
BlockCommentLoop(inp, L, text) ==
  IF ~(LexerPeek(inp, L) = "*" /\ LexerPeekNext(inp, L) = "/") /\ ~LexerIsAtEnd(inp, L)
    THEN LET L1 == IF LexerPeek(inp, L) = "\n"
                     THEN [L EXCEPT !.line = @ + 1, !.column = 1]
                     ELSE L
         IN BlockCommentLoop(inp, LexerAdvance(L1), Append(text, charAt(inp, L.position)))
    ELSE [lex |-> L, text |-> text]

scanBlockComment(inp, L) ==
  LET r == BlockCommentLoop(inp, LexerAdvance(L), <<"/", "*">>)
      closed == LexerAdvance(LexerAdvance(r.lex))
  IN IF LexerIsAtEnd(inp, r.lex)
       THEN Scanned(r.lex, "Unterminated block comment")
       ELSE Scanned(addToken(closed, "COMMENT_BLOCK", r.text \o <<"*", "/">>), "none")

\* The loop of scanQuotedString: up to the closing quote or the end of the
\* input; a raw newline throws.
RECURSIVE QuotedStringLoop(_, _, _)
QuotedStringLoop(inp, L, val) ==
  IF LexerPeek(inp, L) # "\"" /\ ~LexerIsAtEnd(inp, L)
    THEN IF LexerPeek(inp, L) = "\n"
           THEN [lex |-> L, val |-> val, newline |-> TRUE]
           ELSE IF LexerPeek(inp, L) = "\\" /\ LexerPeekNext(inp, L) = "\""
             THEN QuotedStringLoop(inp, LexerAdvance(LexerAdvance(L)),
                                   val \o <<"\\", "\"">>)
             ELSE QuotedStringLoop(inp, LexerAdvance(L),
                                   Append(val, charAt(inp, L.position)))
    ELSE [lex |-> L, val |-> val, newline |-> FALSE]

scanQuotedString(inp, L) ==
  LET r == QuotedStringLoop(inp, L, <<>>)
  IN IF r.newline \/ LexerIsAtEnd(inp, r.lex)
       THEN Scanned(r.lex, "Unterminated string")
       ELSE Scanned(addToken(LexerAdvance(r.lex), "STRING", Unescape(r.val)), "none")

\* The state after the run of digits at the cursor, and the digits.
RECURSIVE DigitsLoop(_, _, _)
DigitsLoop(inp, L, val) ==
  IF LexerIsDigit(LexerPeek(inp, L))
    THEN DigitsLoop(inp, LexerAdvance(L), Append(val, charAt(inp, L.position)))
    ELSE [lex |-> L, val |-> val]

scanNumber(inp, L, firstChar) ==
  LET int == DigitsLoop(inp, L, <<firstChar>>)
      dec == DigitsLoop(inp, LexerAdvance(int.lex), Append(int.val, "."))
      r == IF LexerPeek(inp, int.lex) = "." /\ LexerIsDigit(LexerPeekNext(inp, int.lex))
             THEN dec ELSE int
  IN Scanned(addToken(r.lex, "NUMBER", r.val), "none")

RECURSIVE NameLoop(_, _, _)
NameLoop(inp, L, val) ==
  IF LexerIsNamePart(LexerPeek(inp, L))
    THEN NameLoop(inp, LexerAdvance(L), Append(val, charAt(inp, L.position)))
    ELSE [lex |-> L, val |-> val]

scanName(inp, L, firstChar) ==
  LET r == NameLoop(inp, L, <<firstChar>>)
  IN IF r.val \in {<<"t","r","u","e">>, <<"f","a","l","s","e">>}
       THEN Scanned(addToken(r.lex, "BOOLEAN", r.val), "none")
     ELSE IF r.val = <<"n","u","l","l">>
       THEN Scanned(addToken(r.lex, "NULL", r.val), "none")
     ELSE [Scanned(addToken(r.lex, "NAME", r.val), "none") EXCEPT !.named = TRUE]

\* The token type of each character that is a token by itself.
PunctuationType(c) ==
  CASE c = "{" -> "OPEN_BRACE" [] c = "}" -> "CLOSE_BRACE"
    [] c = "[" -> "OPEN_BRACKET" [] c = "]" -> "CLOSE_BRACKET"
    [] c = "<" -> "LESS_THAN" [] c = ">" -> "GREATER_THAN"
    [] c = "," -> "COMMA" [] c = "=" -> "EQUALS" [] c = "#" -> "HASH"
    [] c = "&" -> "AMPERSAND" [] c = "?" -> "QUESTION"

Punctuation == {"{", "}", "[", "]", "<", ">", ",", "=", "#", "&", "?"}

\* scanToken()
scanToken(inp, L0) ==
  LET char == charAt(inp, L0.position)
      L == LexerAdvance(L0)
      name == scanName(inp, L, char)
      implicitNull ==
        /\ name.named
        /\ isNextWhitespaceOrDelimiter(inp, name.lex)
        /\ ~isSpecialOperator(LexerPeek(inp, name.lex))
  IN CASE char \in Punctuation -> Scanned(addToken(L, PunctuationType(char), <<char>>), "none")
       [] char \in {"(", ")"} -> Scanned(L, "Parentheses are no longer supported")
       [] char = "\"" -> scanQuotedString(inp, L)
       [] char = "\n" -> Scanned([L EXCEPT !.line = @ + 1, !.column = 1], "none")
       [] char \in {" ", "\r", "\t"} -> Scanned(L, "none")
       [] char = "/" ->
            IF LexerPeek(inp, L) = "/" THEN scanLineComment(inp, L)
            ELSE IF LexerPeek(inp, L) = "*" THEN scanBlockComment(inp, L)
            ELSE scanName(inp, L, char)
       [] char = "-" ->
            IF LexerIsDigit(LexerPeek(inp, L)) THEN scanNumber(inp, L, char)
            ELSE scanName(inp, L, char)
       [] OTHER ->
            IF LexerIsDigit(char) THEN scanNumber(inp, L, char)
            ELSE IF LexerIsNameStart(char)
              THEN IF implicitNull
                     THEN Scanned(addToken(name.lex, "NULL", <<"n","u","l","l">>), "none")
                     ELSE name
            ELSE IF char \in WhitespaceChars THEN Scanned(L, "none")
            ELSE Scanned(L, "Unexpected character")

\* The characters of the texts tokenized.
LexerAlphabet ==
  {"{", "\"", "\\", "\n", "/", "*", "-", "1", ".", "n", "(", "~", " ", ","}

\* a block comment, a name, a string with an escaped quote and a number
ExCommented ==
  <<"/","*","c","*","/","n","\"","a","\\","\"","\"",",","-","1",".","5">>

\* a line comment and the keywords
ExKeywords ==
  <<"/","/","c","\n","t","r","u","e"," ","n","u","l","l">>

\* a string with a raw newline before its closing quote
ExStringNewline ==
  <<"n","\"","a","\n","b","\"">>

LexerTexts(maxLen) ==
  UNION {[1..n -> LexerAlphabet] : n \in 0..maxLen}
    \cup {ExCommented, ExKeywords, ExStringNewline}

LexerInit ==
  /\ input \in LexerTexts(MaxLexLen)
  /\ lexer = NewLexer
  /\ cursor = StartCursor
  /\ errors = <<>>
  /\ stack = <<>>
  /\ ret = None
  /\ pc = "lex"
  /\ outcome = "none"
  /\ thrown = <<>>
  /\ result = None
  /\ hist = NoHistory
  /\ value = None
  /\ pretty = FALSE
  /\ again = NoRerun

\* tokenize(), one pass of its loop: scanToken returns or throws.
ScanToken ==
  /\ pc = "lex"
  /\ lexer.outcome = "none"
  /\ ~LexerIsAtEnd(input, lexer)
  /\ LET r == scanToken(input, lexer)
     IN lexer' = IF r.error = "none" THEN r.lex
                 ELSE [r.lex EXCEPT !.outcome = "throw"]
  /\ UNCHANGED <<input, cursor, errors, stack, ret, pc, outcome, thrown, result,
                 value, pretty, again, hist>>

\* tokenize(), after its loop: the end-of-input token is pushed and the
\* tokens are returned.
TokenizeEnd ==
  /\ pc = "lex"
  /\ lexer.outcome = "none"
  /\ LexerIsAtEnd(input, lexer)
  /\ LET L == addToken(lexer, "EOF", <<>>)
     IN lexer' = [L EXCEPT !.outcome = "return", !.returned = L.tokens]
  /\ UNCHANGED <<input, cursor, errors, stack, ret, pc, outcome, thrown, result,
                 value, pretty, again, hist>>

LexerNext == ScanToken \/ TokenizeEnd

LexerSpec == LexerInit /\ [][LexerNext]_vars


---------------------------------------------------------------------------
(* What Lexer.tokenize hands back *)

\* The character at offset p starts no token and is no whitespace: it is no
\* punctuation, quote, digit or start of a name, no "-" before a digit and
\* no "/" that opens a comment.
NoLexicalClass(inp, p) ==
  LET c == charAt(inp, p)
      next == charAt(inp, p + 1)
  IN /\ c \notin Punctuation \cup {"\""} \cup WhitespaceChars
     /\ ~LexerIsDigit(c)
     /\ ~LexerIsNameStart(c)
     /\ ~(c = "-" /\ LexerIsDigit(next))
     /\ ~(c = "/" /\ next \in {"/", "*"})

\* The string whose characters start at index i meets a raw newline before
\* its closing quote.
RECURSIVE ReachesNewline(_, _)
ReachesNewline(inp, i) ==
  IF i > Len(inp) \/ inp[i] = "\"" THEN FALSE
  ELSE IF inp[i] = "\n" THEN TRUE
  ELSE IF inp[i] = "\\" /\ i < Len(inp) /\ inp[i + 1] = "\"" THEN ReachesNewline(inp, i + 2)
  ELSE ReachesNewline(inp, i + 1)

\* The block comment opened at offset p is still open at the end of the
\* input.
StaysOpen(inp, p) ==
  /\ charAt(inp, p) = "/"
  /\ charAt(inp, p + 1) = "*"
  /\ ~\E i \in (p + 3)..(Len(inp) - 1) : inp[i] = "*" /\ inp[i + 1] = "/"

\* tokenize() is about to scan a token that is a lexical error.
AtLexicalError ==
  /\ pc = "lex"
  /\ lexer.outcome = "none"
  /\ ~LexerIsAtEnd(input, lexer)
  /\ \/ NoLexicalClass(input, lexer.position)
     \/ charAt(input, lexer.position) = "\"" /\ ReachesNewline(input, lexer.position + 2)
     \/ StaysOpen(input, lexer.position)

\* The tokens end with the end-of-input token and hold no other.
EndsWithEOF(tokens) ==
  /\ tokens # <<>>
  /\ \A i \in 1..Len(tokens) : (tokens[i].type = "EOF") = (i = Len(tokens))

\* C30: Lexer.tokenize returns tokens of which the last, and no other, is
\* the end-of-input token, or it throws at the first lexical error (a string
\* that meets a raw newline before its closing quote, a block comment open
\* at the end of the input, a character of no lexical class) and returns no
\* token.
C30_TokenizeReturnsOrThrows ==
  /\ [][AtLexicalError => lexer'.outcome = "throw"]_vars
  /\ [](lexer.outcome = "return" => EndsWithEOF(lexer.returned))
  /\ [](lexer.outcome = "throw" => lexer.returned = <<>>)

====
